---- MODULE Spec2Model ----
(***************************************************************************)
(* mdcode: extraction of fenced and inline code blocks from Markdown.      *)
(*                                                                         *)
(* A Rust String / &str is a sequence of chars, each char a one-element    *)
(* TLA+ string.  Option<T> is a sequence of length 0 (None) or 1 (Some).   *)
(* Two characters outside ASCII are part of the alphabet: U+00C9 (capital  *)
(* E with acute) and U+00E9 (small e with acute); in UTF-8 each takes two  *)
(* bytes.                                                                  *)
(***************************************************************************)
EXTENDS Integers, Sequences, FiniteSets, TLC

None == <<>>
Some(v) == <<v>>
IsSome(o) == Len(o) = 1
Unwrap(o) == o[1]

\* the backtick character U+0060 (a TLA+ string cannot hold it)
BT == "BQ"
TL == "~"
NL == "\n"
CR == "\r"
UpperEAcute == "U+00C9"
LowerEAcute == "U+00E9"

-----------------------------------------------------------------------------
(* Library functions of str / char, computed as the standard library does. *)

\* char::is_whitespace, on the characters of the alphabet
IsWhitespace(c) == c \in {" ", "\t", NL, CR}

RECURSIVE trim_start(_)
trim_start(s) ==
  IF s = <<>> \/ ~IsWhitespace(Head(s)) THEN s ELSE trim_start(Tail(s))

RECURSIVE trim_end(_)
trim_end(s) ==
  IF s = <<>> \/ ~IsWhitespace(s[Len(s)]) THEN s
  ELSE trim_end(SubSeq(s, 1, Len(s) - 1))

trim(s) == trim_end(trim_start(s))

\* s.chars().take_while(|c| *c == ch).count()
RECURSIVE take_while_count(_, _)
take_while_count(s, ch) ==
  IF s = <<>> \/ Head(s) # ch THEN 0 ELSE 1 + take_while_count(Tail(s), ch)

starts_with(s, p) == Len(s) >= Len(p) /\ SubSeq(s, 1, Len(p)) = p

\* s.chars().skip(n).collect::<String>()
skip(s, n) == SubSeq(s, n + 1, Len(s))

\* s.trim_end_matches('\n')
RECURSIVE trim_end_matches_nl(_)
trim_end_matches_nl(s) ==
  IF s = <<>> \/ s[Len(s)] # NL THEN s
  ELSE trim_end_matches_nl(SubSeq(s, 1, Len(s) - 1))

\* str::lines(): pieces end at "\n"; the "\n" and a "\r" right before it are
\* dropped; a last piece with no "\n" is a line when it is not empty.
StripCR(s) ==
  IF s # <<>> /\ s[Len(s)] = CR THEN SubSeq(s, 1, Len(s) - 1) ELSE s

RECURSIVE lines_from(_, _, _)
lines_from(s, i, cur) ==
  IF i > Len(s) THEN (IF cur = <<>> THEN <<>> ELSE <<cur>>)
  ELSE IF s[i] = NL THEN <<StripCR(cur)>> \o lines_from(s, i + 1, <<>>)
  ELSE lines_from(s, i + 1, Append(cur, s[i]))

lines(s) == lines_from(s, 1, <<>>)

AsciiUpper ==
  <<"A", "B", "C", "D", "E", "F", "G", "H", "I", "J", "K", "L", "M",
    "N", "O", "P", "Q", "R", "S", "T", "U", "V", "W", "X", "Y", "Z">>
AsciiLower ==
  <<"a", "b", "c", "d", "e", "f", "g", "h", "i", "j", "k", "l", "m",
    "n", "o", "p", "q", "r", "s", "t", "u", "v", "w", "x", "y", "z">>

\* u8::to_ascii_lowercase / char::to_ascii_lowercase
to_ascii_lowercase(c) ==
  IF \E k \in 1..Len(AsciiUpper) : AsciiUpper[k] = c
  THEN AsciiLower[CHOOSE k \in 1..Len(AsciiUpper) : AsciiUpper[k] = c]
  ELSE c

\* char::to_lowercase (Unicode), on the characters of the alphabet
char_to_lowercase(c) ==
  IF c = UpperEAcute THEN LowerEAcute ELSE to_ascii_lowercase(c)

\* str::to_lowercase
to_lowercase(s) == [k \in 1..Len(s) |-> char_to_lowercase(s[k])]

\* str::eq_ignore_ascii_case
eq_ignore_ascii_case(a, b) ==
  /\ Len(a) = Len(b)
  /\ \A k \in 1..Len(a) : to_ascii_lowercase(a[k]) = to_ascii_lowercase(b[k])

\* UTF-8 encoding of one char: ASCII chars are one byte (written as the
\* char itself), the two accented letters are two bytes each.
Utf8(c) ==
  IF c = UpperEAcute THEN <<"0xC3", "0x89">>
  ELSE IF c = LowerEAcute THEN <<"0xC3", "0xA9">>
  ELSE <<c>>

\* str::as_bytes
RECURSIVE as_bytes(_)
as_bytes(s) == IF s = <<>> THEN <<>> ELSE Utf8(Head(s)) \o as_bytes(Tail(s))

\* byte offset (0-based) at which the k-th char of s starts; k = Len(s)+1
\* gives the byte length
ByteOffset(s, k) == Len(as_bytes(SubSeq(s, 1, k - 1)))

\* str::is_char_boundary
is_char_boundary(s, off) == \E k \in 1..(Len(s) + 1) : ByteOffset(s, k) = off

\* &s[a..b] with byte offsets a, b (both char boundaries, a <= b)
str_slice(s, a, b) ==
  LET ks == {k \in 1..Len(s) : ByteOffset(s, k) >= a /\ ByteOffset(s, k) < b} IN
  IF ks = {} THEN <<>>
  ELSE SubSeq(s, CHOOSE k \in ks : \A j \in ks : k <= j,
                 CHOOSE k \in ks : \A j \in ks : k >= j)

Digits == <<"0", "1", "2", "3", "4", "5", "6", "7", "8", "9">>
IsDigit(c) == \E k \in 1..Len(Digits) : Digits[k] = c
DigitVal(c) == (CHOOSE k \in 1..Len(Digits) : Digits[k] = c) - 1

RECURSIVE digits_value(_, _)
digits_value(s, acc) ==
  IF s = <<>> THEN acc ELSE digits_value(Tail(s), acc * 10 + DigitVal(Head(s)))

\* str::parse::<usize>(): Ok(value) or Err.  An optional leading "+" is
\* accepted, then at least one decimal digit and nothing else.  (The
\* overflow error needs more than 19 digits.)
Ok(v) == <<"Ok", v>>
Err(e) == <<"Err", e>>
IsOk(r) == r[1] = "Ok"
parse_usize(s) ==
  LET body == IF s # <<>> /\ Head(s) = "+" THEN Tail(s) ELSE s IN
  IF s = <<>> THEN Err("cannot parse integer from empty string")
  ELSE IF body = <<>> \/ \E k \in 1..Len(body) : ~IsDigit(body[k])
  THEN Err("invalid digit found in string")
  ELSE Ok(digits_value(body, 0))

\* str::split_once('-'): Some(<<before, after>>) at the first "-", else None
split_once_dash(s) ==
  IF \E k \in 1..Len(s) : s[k] = "-"
  THEN LET k == CHOOSE k \in 1..Len(s) :
                  s[k] = "-" /\ \A j \in 1..(k - 1) : s[j] # "-"
       IN Some(<<SubSeq(s, 1, k - 1), SubSeq(s, k + 1, Len(s))>>)
  ELSE None

-----------------------------------------------------------------------------
(* The program's pure functions.                                           *)

Fenced == "Fenced"
Inline == "Inline"

\* struct CodeBlock
CodeBlock(index, source, kind, lang, start_line, end_line, code) ==
  [index |-> index, source |-> source, kind |-> kind, lang |-> lang,
   start_line |-> start_line, end_line |-> end_line, code |-> code]

\* struct FenceState
FenceState(fence_char, fence_len, lang, buffer, start_line) ==
  [fence_char |-> fence_char, fence_len |-> fence_len, lang |-> lang,
   buffer |-> buffer, start_line |-> start_line]

\* fn parse_fence_start: Some(<<fence_char, fence_len, lang>>) or None
parse_fence_start(line) ==
  LET trimmed == trim_start(line)
      fence_char == IF starts_with(trimmed, <<BT, BT, BT>>) THEN Some(BT)
                    ELSE IF starts_with(trimmed, <<TL, TL, TL>>) THEN Some(TL)
                    ELSE None
  IN IF fence_char = None THEN None
     ELSE LET fence_len == take_while_count(trimmed, Unwrap(fence_char))
              text == trim(skip(trimmed, fence_len))
              lang == IF text = <<>> THEN None ELSE Some(text)
          IN Some(<<Unwrap(fence_char), fence_len, lang>>)

\* is_closing_fence with the glyph of the opening fence not compared: the
\* leading run of either glyph counts
is_closing_fence_any_glyph(line, fence_char, fence_len) ==
  LET trimmed == trim_start(line)
      prefix_len == IF take_while_count(trimmed, BT) > 0
                    THEN take_while_count(trimmed, BT)
                    ELSE take_while_count(trimmed, TL)
  IN prefix_len >= fence_len /\ prefix_len >= 3

\* fn is_closing_fence, with the run length that closes a fence of length 3
\* being the literal of the source
is_closing_fence(line, fence_char, fence_len) ==
  LET trimmed == trim_start(line)
      prefix_len == take_while_count(trimmed, fence_char)
  IN prefix_len >= fence_len /\ prefix_len >= 3

\* the inner loop of parse_inline_blocks: the length of the backtick run
\* that starts at byte i (0-based)
RECURSIVE tick_run(_, _, _)
tick_run(bytes, i, tick_len) ==
  IF i + tick_len < Len(bytes) /\ bytes[i + tick_len + 1] = BT
  THEN tick_run(bytes, i, tick_len + 1)
  ELSE tick_len

\* the state of the scan of parse_inline_blocks before its loop
InlineInit ==
  [i |-> 0, start_tick |-> None, start_idx |-> None, blocks |-> <<>>,
   panicked |-> FALSE]

\* the iteration with a span closed by a run at least as long as the
\* opening run, as a fence is
InlineStep_longer_run_closes(line, line_no, source, st) ==
  LET bytes == as_bytes(line) IN
  IF bytes[st.i + 1] = BT
  THEN LET tick_len == tick_run(bytes, st.i, 1) IN
       IF st.start_tick = None
       THEN [st EXCEPT !.start_tick = Some(tick_len),
                       !.start_idx = Some(st.i + tick_len),
                       !.i = st.i + tick_len]
       ELSE IF tick_len >= Unwrap(st.start_tick)
       THEN LET content_start ==
                  IF IsSome(st.start_idx) THEN Unwrap(st.start_idx) ELSE st.i
                sliceable == /\ content_start <= st.i
                             /\ is_char_boundary(line, content_start)
                             /\ is_char_boundary(line, st.i)
                content == str_slice(line, content_start, st.i)
            IN IF ~sliceable THEN [st EXCEPT !.panicked = TRUE, !.i = Len(bytes)]
               ELSE [st EXCEPT
                       !.blocks =
                          IF content # <<>>
                          THEN Append(@, CodeBlock(0, source, Inline, None,
                                        Some(line_no), Some(line_no), content))
                          ELSE @,
                       !.start_tick = None,
                       !.start_idx = None,
                       !.i = st.i + tick_len]
       ELSE [st EXCEPT !.i = st.i + tick_len]
  ELSE [st EXCEPT !.i = st.i + 1]

\* the iteration with the whitespace around the content of a span removed
\* after the test that the content is not empty
InlineStep_trimmed_content(line, line_no, source, st) ==
  LET bytes == as_bytes(line) IN
  IF bytes[st.i + 1] = BT
  THEN LET tick_len == tick_run(bytes, st.i, 1) IN
       IF st.start_tick = None
       THEN [st EXCEPT !.start_tick = Some(tick_len),
                       !.start_idx = Some(st.i + tick_len),
                       !.i = st.i + tick_len]
       ELSE IF tick_len = Unwrap(st.start_tick)
       THEN LET content_start ==
                  IF IsSome(st.start_idx) THEN Unwrap(st.start_idx) ELSE st.i
                sliceable == /\ content_start <= st.i
                             /\ is_char_boundary(line, content_start)
                             /\ is_char_boundary(line, st.i)
                content == str_slice(line, content_start, st.i)
            IN IF ~sliceable THEN [st EXCEPT !.panicked = TRUE, !.i = Len(bytes)]
               ELSE [st EXCEPT
                       !.blocks =
                          IF content # <<>>
                          THEN Append(@, CodeBlock(0, source, Inline, None,
                                        Some(line_no), Some(line_no),
                                        trim(content)))
                          ELSE @,
                       !.start_tick = None,
                       !.start_idx = None,
                       !.i = st.i + tick_len]
       ELSE [st EXCEPT !.i = st.i + tick_len]
  ELSE [st EXCEPT !.i = st.i + 1]

\* the iteration without the advance over a run that is content of the
\* open span
InlineStep_run_not_skipped(line, line_no, source, st) ==
  LET bytes == as_bytes(line) IN
  IF bytes[st.i + 1] = BT
  THEN LET tick_len == tick_run(bytes, st.i, 1) IN
       IF st.start_tick = None
       THEN [st EXCEPT !.start_tick = Some(tick_len),
                       !.start_idx = Some(st.i + tick_len),
                       !.i = st.i + tick_len]
       ELSE IF tick_len = Unwrap(st.start_tick)
       THEN LET content_start ==
                  IF IsSome(st.start_idx) THEN Unwrap(st.start_idx) ELSE st.i
                sliceable == /\ content_start <= st.i
                             /\ is_char_boundary(line, content_start)
                             /\ is_char_boundary(line, st.i)
                content == str_slice(line, content_start, st.i)
            IN IF ~sliceable THEN [st EXCEPT !.panicked = TRUE, !.i = Len(bytes)]
               ELSE [st EXCEPT
                       !.blocks =
                          IF content # <<>>
                          THEN Append(@, CodeBlock(0, source, Inline, None,
                                        Some(line_no), Some(line_no), content))
                          ELSE @,
                       !.start_tick = None,
                       !.start_idx = None,
                       !.i = st.i + tick_len]
       ELSE st
  ELSE [st EXCEPT !.i = st.i + 1]

\* one iteration of the outer loop of parse_inline_blocks, i < bytes.len()
InlineStep(line, line_no, source, st) ==
  LET bytes == as_bytes(line) IN
  IF bytes[st.i + 1] = BT
  THEN LET tick_len == tick_run(bytes, st.i, 1) IN
       IF st.start_tick = None
       THEN [st EXCEPT !.start_tick = Some(tick_len),
                       !.start_idx = Some(st.i + tick_len),
                       !.i = st.i + tick_len]
       ELSE IF tick_len = Unwrap(st.start_tick)
       THEN LET content_start ==
                  IF IsSome(st.start_idx) THEN Unwrap(st.start_idx) ELSE st.i
                sliceable == /\ content_start <= st.i
                             /\ is_char_boundary(line, content_start)
                             /\ is_char_boundary(line, st.i)
                content == str_slice(line, content_start, st.i)
            IN IF ~sliceable THEN [st EXCEPT !.panicked = TRUE, !.i = Len(bytes)]
               ELSE [st EXCEPT
                       !.blocks =
                          IF content # <<>>
                          THEN Append(@, CodeBlock(0, source, Inline, None,
                                        Some(line_no), Some(line_no), content))
                          ELSE @,
                       !.start_tick = None,
                       !.start_idx = None,
                       !.i = st.i + tick_len]
       ELSE [st EXCEPT !.i = st.i + tick_len]
  ELSE [st EXCEPT !.i = st.i + 1]

RECURSIVE InlineLoop(_, _, _, _)
InlineLoop(line, line_no, source, st) ==
  IF st.i < Len(as_bytes(line))
  THEN InlineLoop(line, line_no, source, InlineStep(line, line_no, source, st))
  ELSE st

\* fn parse_inline_blocks
parse_inline_blocks(line, line_no, source) ==
  InlineLoop(line, line_no, source, InlineInit).blocks

\* the subtraction left out: the minuend unchanged
saturating_sub_skipped(a, b) == a

\* usize::saturating_sub
saturating_sub(a, b) == IF a >= b THEN a - b ELSE 0

\* struct InputSource
InputSource(name, content) == [name |-> name, content |-> content]

\* parse_blocks: the locals before the loop over input.content.lines()
ParseInit == [blocks |-> <<>>, in_fence |-> None, last_line_no |-> 0]

\* the loop body of parse_blocks with the `continue` after a fence start
\* missing: the opening line goes on to the inline scan
ParseLine_inline_on_opener(name, include_inline, st, raw_line, line_no) ==
  LET st1 == [st EXCEPT !.last_line_no = line_no]
      scanned == IF include_inline
                 THEN [st1 EXCEPT !.blocks =
                         @ \o parse_inline_blocks(raw_line, line_no, name)]
                 ELSE st1
  IN
  IF IsSome(st.in_fence)
  THEN LET state == Unwrap(st.in_fence) IN
       IF is_closing_fence(raw_line, state.fence_char, state.fence_len)
       THEN [st1 EXCEPT
               !.blocks = Append(@, CodeBlock(0, name, Fenced, state.lang,
                                   Some(state.start_line),
                                   Some(saturating_sub(line_no, 1)),
                                   trim_end_matches_nl(state.buffer))),
               !.in_fence = None]
       ELSE [st1 EXCEPT
               !.in_fence = Some([state EXCEPT
                                    !.buffer = (@ \o raw_line) \o <<NL>>])]
  ELSE LET start == parse_fence_start(raw_line) IN
       IF IsSome(start)
       THEN [scanned EXCEPT
               !.in_fence = Some(FenceState(Unwrap(start)[1], Unwrap(start)[2],
                                            Unwrap(start)[3], <<>>,
                                            line_no + 1))]
       ELSE scanned

\* the loop body of parse_blocks with the include_inline test missing
ParseLine_inline_always(name, include_inline, st, raw_line, line_no) ==
  LET st1 == [st EXCEPT !.last_line_no = line_no] IN
  IF IsSome(st.in_fence)
  THEN LET state == Unwrap(st.in_fence) IN
       IF is_closing_fence(raw_line, state.fence_char, state.fence_len)
       THEN [st1 EXCEPT
               !.blocks = Append(@, CodeBlock(0, name, Fenced, state.lang,
                                   Some(state.start_line),
                                   Some(saturating_sub(line_no, 1)),
                                   trim_end_matches_nl(state.buffer))),
               !.in_fence = None]
       ELSE [st1 EXCEPT
               !.in_fence = Some([state EXCEPT
                                    !.buffer = (@ \o raw_line) \o <<NL>>])]
  ELSE LET start == parse_fence_start(raw_line) IN
       IF IsSome(start)
       THEN [st1 EXCEPT
               !.in_fence = Some(FenceState(Unwrap(start)[1], Unwrap(start)[2],
                                            Unwrap(start)[3], <<>>,
                                            line_no + 1))]
       ELSE [st1 EXCEPT
               !.blocks = @ \o parse_inline_blocks(raw_line, line_no, name)]

\* the loop body of parse_blocks with a body line appended without its
\* leading whitespace
ParseLine_body_trimmed(name, include_inline, st, raw_line, line_no) ==
  LET st1 == [st EXCEPT !.last_line_no = line_no] IN
  IF IsSome(st.in_fence)
  THEN LET state == Unwrap(st.in_fence) IN
       IF is_closing_fence(raw_line, state.fence_char, state.fence_len)
       THEN [st1 EXCEPT
               !.blocks = Append(@, CodeBlock(0, name, Fenced, state.lang,
                                   Some(state.start_line),
                                   Some(saturating_sub(line_no, 1)),
                                   trim_end_matches_nl(state.buffer))),
               !.in_fence = None]
       ELSE [st1 EXCEPT
               !.in_fence = Some([state EXCEPT
                                    !.buffer = (@ \o trim_start(raw_line))
                                                 \o <<NL>>])]
  ELSE LET start == parse_fence_start(raw_line) IN
       IF IsSome(start)
       THEN [st1 EXCEPT
               !.in_fence = Some(FenceState(Unwrap(start)[1], Unwrap(start)[2],
                                            Unwrap(start)[3], <<>>,
                                            line_no + 1))]
       ELSE IF include_inline
       THEN [st1 EXCEPT
               !.blocks = @ \o parse_inline_blocks(raw_line, line_no, name)]
       ELSE st1

\* the loop body of parse_blocks with the inline scan carried over the line
\* ends: a span left open on a line is continued on the next scanned line
ParseLine_span_carried(name, include_inline, st, raw_line, line_no) ==
  LET st1 == [st EXCEPT !.last_line_no = line_no] IN
  IF IsSome(st.in_fence)
  THEN LET state == Unwrap(st.in_fence) IN
       IF is_closing_fence(raw_line, state.fence_char, state.fence_len)
       THEN [st1 EXCEPT
               !.blocks = Append(@, CodeBlock(0, name, Fenced, state.lang,
                                   Some(state.start_line),
                                   Some(saturating_sub(line_no, 1)),
                                   trim_end_matches_nl(state.buffer))),
               !.in_fence = None]
       ELSE [st1 EXCEPT
               !.in_fence = Some([state EXCEPT
                                    !.buffer = (@ \o raw_line) \o <<NL>>])]
  ELSE LET start == parse_fence_start(raw_line) IN
       IF IsSome(start)
       THEN [st1 EXCEPT
               !.in_fence = Some(FenceState(Unwrap(start)[1], Unwrap(start)[2],
                                            Unwrap(start)[3], <<>>,
                                            line_no + 1))]
       ELSE IF include_inline
       THEN LET carried == IF "carry" \in DOMAIN st THEN st.carry ELSE <<>>
                text == carried \o raw_line
                scan == InlineLoop(text, line_no, name, InlineInit)
                open_from == Unwrap(scan.start_idx) - Unwrap(scan.start_tick)
            IN [blocks |-> st.blocks \o scan.blocks,
                in_fence |-> st.in_fence,
                last_line_no |-> line_no,
                carry |-> IF IsSome(scan.start_tick)
                          THEN SubSeq(text, open_from + 1, Len(text))
                                 \o <<NL>>
                          ELSE <<>>]
       ELSE st1

\* the loop body of parse_blocks without the continue after a closed fence:
\* the closing line is then also tried as an opening line
ParseLine_close_reopens(name, include_inline, st, raw_line, line_no) ==
  LET st1 == [st EXCEPT !.last_line_no = line_no]
      start == parse_fence_start(raw_line)
  IN
  IF IsSome(st.in_fence)
  THEN LET state == Unwrap(st.in_fence) IN
       IF is_closing_fence(raw_line, state.fence_char, state.fence_len)
       THEN [st1 EXCEPT
               !.blocks = Append(@, CodeBlock(0, name, Fenced, state.lang,
                                   Some(state.start_line),
                                   Some(saturating_sub(line_no, 1)),
                                   trim_end_matches_nl(state.buffer))),
               !.in_fence =
                  IF IsSome(start)
                  THEN Some(FenceState(Unwrap(start)[1], Unwrap(start)[2],
                                       Unwrap(start)[3], <<>>, line_no + 1))
                  ELSE None]
       ELSE [st1 EXCEPT
               !.in_fence = Some([state EXCEPT
                                    !.buffer = (@ \o raw_line) \o <<NL>>])]
  ELSE IF IsSome(start)
       THEN [st1 EXCEPT
               !.in_fence = Some(FenceState(Unwrap(start)[1], Unwrap(start)[2],
                                            Unwrap(start)[3], <<>>,
                                            line_no + 1))]
       ELSE IF include_inline
       THEN [st1 EXCEPT
               !.blocks = @ \o parse_inline_blocks(raw_line, line_no, name)]
       ELSE st1

\* the loop body of parse_blocks with start_line the number of the opening
\* fence line itself
ParseLine_start_at_opener(name, include_inline, st, raw_line, line_no) ==
  LET st1 == [st EXCEPT !.last_line_no = line_no] IN
  IF IsSome(st.in_fence)
  THEN LET state == Unwrap(st.in_fence) IN
       IF is_closing_fence(raw_line, state.fence_char, state.fence_len)
       THEN [st1 EXCEPT
               !.blocks = Append(@, CodeBlock(0, name, Fenced, state.lang,
                                   Some(state.start_line),
                                   Some(saturating_sub(line_no, 1)),
                                   trim_end_matches_nl(state.buffer))),
               !.in_fence = None]
       ELSE [st1 EXCEPT
               !.in_fence = Some([state EXCEPT
                                    !.buffer = (@ \o raw_line) \o <<NL>>])]
  ELSE LET start == parse_fence_start(raw_line) IN
       IF IsSome(start)
       THEN [st1 EXCEPT
               !.in_fence = Some(FenceState(Unwrap(start)[1], Unwrap(start)[2],
                                            Unwrap(start)[3], <<>>,
                                            line_no))]
       ELSE IF include_inline
       THEN [st1 EXCEPT
               !.blocks = @ \o parse_inline_blocks(raw_line, line_no, name)]
       ELSE st1

\* parse_blocks: the body of the loop, for line raw_line numbered line_no
ParseLine(name, include_inline, st, raw_line, line_no) ==
  LET st1 == [st EXCEPT !.last_line_no = line_no] IN
  IF IsSome(st.in_fence)
  THEN LET state == Unwrap(st.in_fence) IN
       IF is_closing_fence(raw_line, state.fence_char, state.fence_len)
       THEN [st1 EXCEPT
               !.blocks = Append(@, CodeBlock(0, name, Fenced, state.lang,
                                   Some(state.start_line),
                                   Some(saturating_sub(line_no, 1)),
                                   trim_end_matches_nl(state.buffer))),
               !.in_fence = None]
       ELSE [st1 EXCEPT
               !.in_fence = Some([state EXCEPT
                                    !.buffer = (@ \o raw_line) \o <<NL>>])]
  ELSE LET start == parse_fence_start(raw_line) IN
       IF IsSome(start)
       THEN [st1 EXCEPT
               !.in_fence = Some(FenceState(Unwrap(start)[1], Unwrap(start)[2],
                                            Unwrap(start)[3], <<>>,
                                            line_no + 1))]
       ELSE IF include_inline
       THEN [st1 EXCEPT
               !.blocks = @ \o parse_inline_blocks(raw_line, line_no, name)]
       ELSE st1

\* the end of parse_blocks with the end line computed as for a closed
\* fence, one less than the last line read
ParseEnd_as_closed(name, st) ==
  IF IsSome(st.in_fence)
  THEN LET state == Unwrap(st.in_fence)
           end_line == saturating_sub(st.last_line_no, 1)
       IN Append(st.blocks, CodeBlock(0, name, Fenced, state.lang,
                              Some(state.start_line), Some(end_line),
                              trim_end_matches_nl(state.buffer)))
  ELSE st.blocks

\* parse_blocks: after the loop, the unterminated fence becomes a block
ParseEnd(name, st) ==
  IF IsSome(st.in_fence)
  THEN LET state == Unwrap(st.in_fence)
           end_line == IF state.buffer = <<>> THEN st.last_line_no
                       ELSE st.last_line_no
       IN Append(st.blocks, CodeBlock(0, name, Fenced, state.lang,
                              Some(state.start_line), Some(end_line),
                              trim_end_matches_nl(state.buffer)))
  ELSE st.blocks

RECURSIVE ParseLoop(_, _, _, _, _)
ParseLoop(name, include_inline, ls, idx, st) ==
  IF idx < Len(ls)
  THEN ParseLoop(name, include_inline, ls, idx + 1,
                 ParseLine(name, include_inline, st, ls[idx + 1], idx + 1))
  ELSE st

\* fn parse_blocks
parse_blocks(input, include_inline) ==
  ParseEnd(input.name,
           ParseLoop(input.name, include_inline, lines(input.content), 0,
                     ParseInit))

RECURSIVE ParseAll(_, _)
ParseAll(inputs, include_inline) ==
  IF inputs = <<>> THEN <<>>
  ELSE parse_blocks(Head(inputs), include_inline)
         \o ParseAll(Tail(inputs), include_inline)

\* collect_blocks with the numbering done per document: each block gets its
\* position within its own document's blocks
RECURSIVE ParseAll_numbered(_, _)
ParseAll_numbered(inputs, include_inline) ==
  IF inputs = <<>> THEN <<>>
  ELSE LET parsed == parse_blocks(Head(inputs), include_inline) IN
       [p \in 1..Len(parsed) |-> [parsed[p] EXCEPT !.index = p - 1]]
         \o ParseAll_numbered(Tail(inputs), include_inline)

collect_blocks_per_document(inputs, include_inline) ==
  ParseAll_numbered(inputs, include_inline)

\* collect_blocks with one scan over all documents: the fence left open at
\* the end of a document is still open on the first line of the next one
RECURSIVE ParseAll_one_scan(_, _, _)
ParseAll_one_scan(inputs, include_inline, in_fence) ==
  IF inputs = <<>> THEN <<>>
  ELSE LET input == Head(inputs)
           st == ParseLoop(input.name, include_inline, lines(input.content),
                           0, [ParseInit EXCEPT !.in_fence = in_fence])
       IN IF Len(inputs) = 1 THEN ParseEnd(input.name, st)
          ELSE st.blocks
                 \o ParseAll_one_scan(Tail(inputs), include_inline,
                                      st.in_fence)

collect_blocks_one_scan(inputs, include_inline) ==
  LET blocks == ParseAll_one_scan(inputs, include_inline, None) IN
  [p \in 1..Len(blocks) |-> [blocks[p] EXCEPT !.index = p - 1]]

\* fn collect_blocks: the documents' blocks appended in order, then numbered
collect_blocks(inputs, include_inline) ==
  LET blocks == ParseAll(inputs, include_inline) IN
  [p \in 1..Len(blocks) |-> [blocks[p] EXCEPT !.index = p - 1]]

\* enum LangSelector
LangAll == <<"All">>
LangList == <<"List">>
LangFilter(lang) == <<"Filter", lang>>

\* fn parse_lang_selector, of args.lang: Option<Option<String>>
parse_lang_selector(arg) ==
  IF arg = None THEN LangAll
  ELSE IF Unwrap(arg) = None THEN LangList
  ELSE LangFilter(to_lowercase(Unwrap(Unwrap(arg))))

\* fn matches_lang
matches_lang(block, lang) ==
  IF IsSome(block.lang) THEN eq_ignore_ascii_case(Unwrap(block.lang), lang)
  ELSE FALSE

\* blocks.retain(|b| matches_lang(b, lang))
RECURSIVE retain_lang(_, _)
retain_lang(blocks, lang) ==
  IF blocks = <<>> THEN <<>>
  ELSE (IF matches_lang(Head(blocks), lang) THEN <<Head(blocks)>> ELSE <<>>)
         \o retain_lang(Tail(blocks), lang)

\* enum IndexFilter
Single(n) == [tag |-> "Single", n |-> n]
Range(start, end) == [tag |-> "Range", start |-> start, end |-> end]

\* parse_index_filter with the test start > end missing
parse_index_filter_no_order_check(raw) ==
  IF raw = None THEN Ok(None)
  ELSE LET parts == split_once_dash(Unwrap(raw)) IN
       IF IsSome(parts)
       THEN LET start == parse_usize(trim(Unwrap(parts)[1]))
                end == parse_usize(trim(Unwrap(parts)[2]))
            IN IF ~IsOk(start) THEN start
               ELSE IF ~IsOk(end) THEN end
               ELSE Ok(Some(Range(start[2], end[2])))
       ELSE LET value == parse_usize(trim(Unwrap(raw))) IN
            IF ~IsOk(value) THEN value ELSE Ok(Some(Single(value[2])))

\* fn parse_index_filter: Ok(None), Ok(Some(filter)) or Err(message)
parse_index_filter(raw) ==
  IF raw = None THEN Ok(None)
  ELSE LET parts == split_once_dash(Unwrap(raw)) IN
       IF IsSome(parts)
       THEN LET start == parse_usize(trim(Unwrap(parts)[1]))
                end == parse_usize(trim(Unwrap(parts)[2]))
            IN IF ~IsOk(start) THEN start
               ELSE IF ~IsOk(end) THEN end
               ELSE IF start[2] > end[2]
               THEN Err("range start must be <= end")
               ELSE Ok(Some(Range(start[2], end[2])))
       ELSE LET value == parse_usize(trim(Unwrap(raw))) IN
            IF ~IsOk(value) THEN value ELSE Ok(Some(Single(value[2])))

\* the closures of apply_index_filter
index_matches(b, filter) ==
  IF filter.tag = "Single" THEN b.index = filter.n
  ELSE b.index >= filter.start /\ b.index <= filter.end

\* apply_index_filter with a block's position in the sequence it is given
\* taken for its index
apply_index_filter_by_position(blocks, filter) ==
  LET keep == {p \in 1..Len(blocks) :
                 index_matches([blocks[p] EXCEPT !.index = p - 1], filter)}
      F[p \in 0..Len(blocks)] ==
        IF p = 0 THEN <<>>
        ELSE IF p \in keep THEN Append(F[p - 1], blocks[p]) ELSE F[p - 1]
  IN F[Len(blocks)]

\* fn apply_index_filter
RECURSIVE apply_index_filter(_, _)
apply_index_filter(blocks, filter) ==
  IF blocks = <<>> THEN <<>>
  ELSE (IF index_matches(Head(blocks), filter) THEN <<Head(blocks)>> ELSE <<>>)
         \o apply_index_filter(Tail(blocks), filter)

-----------------------------------------------------------------------------
(* Bounds and input sets.                                                  *)

\* the most file arguments of a run
MaxFiles == 2
\* the most lines of the document of a parse_blocks run
MaxLines == 3

StdinName == <<"stdin", 0>>
FilePath(i) == <<"file", i>>

\* the texts a file or the standard input can hold in a run of main
DocEmpty == <<>>
\* ```r / x / ``` / y `z`      (with a final line terminator)
DocFencedInline ==
  <<BT, BT, BT, "r", NL, "x", NL, BT, BT, BT, NL, "y", " ", BT, "z", BT, NL>>
\* ~~~R / x / ~~~ / ``` / x / ```
DocTwoFenced ==
  <<TL, TL, TL, "R", NL, "x", NL, TL, TL, TL, NL,
    BT, BT, BT, NL, "x", NL, BT, BT, BT>>
\* ```E-acute / x              (the fence is never closed)
DocUnterminated == <<BT, BT, BT, UpperEAcute, NL, "x">>
\* a `x` b `y`
DocInline == <<"a", " ", BT, "x", BT, " ", "b", " ", BT, "y", BT>>

FileDocs == {DocFencedInline, DocTwoFenced, DocUnterminated}
StdinDocs == {DocEmpty, DocInline}

\* the values of --number
NumberArgs ==
  {None,
   Some(<<"0">>), Some(<<" ", "2">>), Some(<<"+", "1">>),
   Some(<<"0", "-", "1">>), Some(<<"1", " ", "-", "3">>),
   Some(<<"4", "-", "2">>), Some(<<"x">>), Some(<<"1", "-">>),
   Some(<<"1", "-", "2", "-", "3">>)}

\* the values of --lang: absent, given with no value, given with a tag
LangArgs ==
  {None, Some(None), Some(Some(<<"r">>)), Some(Some(<<"R">>)),
   Some(Some(<<UpperEAcute>>))}

\* the lines of the documents given to parse_blocks
LineVocab ==
  {<<BT, BT, BT>>, <<BT, BT, BT, BT>>, <<TL, TL, TL>>, <<TL, TL, TL, TL>>,
   <<" ", BT, BT, BT, "r">>, <<"a", " ", BT, "x", BT>>,
   <<TL, TL, TL, " ", BT, "x", BT>>, <<>>, <<BT, BT>>}

SeqsUpTo(S, n) == UNION {[1..k -> S] : k \in 0..n}

\* the lines joined by line terminators, with or without a final one
RECURSIVE JoinLines(_, _)
JoinLines(ls, final_nl) ==
  IF ls = <<>> THEN <<>>
  ELSE IF Len(ls) = 1 THEN Head(ls) \o (IF final_nl THEN <<NL>> ELSE <<>>)
  ELSE (Head(ls) \o <<NL>>) \o JoinLines(Tail(ls), final_nl)

ParseDocs ==
  {JoinLines(ls, nl) : ls \in SeqsUpTo(LineVocab, MaxLines), nl \in BOOLEAN}

-----------------------------------------------------------------------------
(* State.                                                                  *)

VARIABLES
  args,              \* struct Args: number, lang, inline, json, list, files
  stdin_is_terminal, \* io::stdin().is_terminal()
  pc,                \* the statement of main that runs next
  inputs,            \* main: inputs
  blocks,            \* main: blocks
  stderr,            \* the message written to stderr, if any
  exit_code,         \* the exit code of the process, once it ended
  stdout,            \* the renderer called and the blocks handed to it
  hist_collected,    \* history: what collect_blocks returned
  hist_after_lang,   \* history: blocks after the language filter statement
  hist_lang_applied, \* history: blocks.retain(..) of the language filter ran
  p_input,           \* parse_blocks: input
  p_inline,          \* parse_blocks: include_inline
  p_idx,             \* parse_blocks: lines of the loop already done
  p_st,              \* parse_blocks: blocks, in_fence, last_line_no
  p_pc,              \* parse_blocks: "loop", "end" or "returned"
  p_result,          \* parse_blocks: the returned blocks
  p_trace,           \* history: per line read, the fence before and after
  i_line,            \* parse_inline_blocks: line
  i_no,              \* parse_inline_blocks: line_no
  i_st,              \* parse_inline_blocks: i, start_tick, start_idx, blocks
  i_pc,              \* parse_inline_blocks: "loop", "returned" or "panicked"
  i_trace            \* history: the scan state before each iteration

mainVars ==
  <<args, stdin_is_terminal, pc, inputs, blocks, stderr, exit_code, stdout,
    hist_collected, hist_after_lang, hist_lang_applied>>
parseVars == <<p_input, p_inline, p_idx, p_st, p_pc, p_result, p_trace>>
inlineVars == <<i_line, i_no, i_st, i_pc, i_trace>>
vars == <<mainVars, parseVars, inlineVars>>

\* main: let lang_selector = parse_lang_selector(&args.lang)
lang_selector == parse_lang_selector(args.lang)

MsgNoInput == "No input provided. Pass files or pipe markdown into stdin."
MsgNoMatch == "No matching code blocks found."
MsgIo == "io::Error"

-----------------------------------------------------------------------------
(* main and collect_inputs.                                                *)

\* what reading the standard input, or one file, can give
StdinReads == {Ok(c) : c \in StdinDocs} \cup {Err(MsgIo)}
FileReads == {Ok(c) : c \in FileDocs} \cup {Err(MsgIo)}

\* fn collect_inputs; stdin_read is the result of read_to_string on the
\* standard input, file_reads[i] that of fs::read_to_string on files[i]
collect_inputs(a, is_terminal, stdin_read, file_reads) ==
  LET read_stdin == (~is_terminal) \/ a.files = <<>>
      failed == {i \in 1..Len(a.files) : ~IsOk(file_reads[i])}
      from_stdin ==
        IF read_stdin /\ (stdin_read[2] # <<>> \/ a.files = <<>>)
        THEN <<InputSource(StdinName, stdin_read[2])>>
        ELSE <<>>
  IN IF read_stdin /\ ~IsOk(stdin_read) THEN stdin_read
     ELSE IF failed # {}
     THEN file_reads[CHOOSE i \in failed : \A j \in failed : i <= j]
     ELSE Ok(from_stdin
             \o [i \in 1..Len(a.files) |->
                   InputSource(a.files[i], file_reads[i][2])])

ArgsSet ==
  [number : NumberArgs, lang : LangArgs, inline : BOOLEAN, json : BOOLEAN,
   list : BOOLEAN,
   files : {[i \in 1..n |-> FilePath(i)] : n \in 0..MaxFiles}]

ParseIdle ==
  /\ p_input = InputSource(StdinName, <<>>)
  /\ p_inline = FALSE
  /\ p_idx = 0
  /\ p_st = ParseInit
  /\ p_pc = "idle"
  /\ p_result = <<>>
  /\ p_trace = <<>>

InlineIdle ==
  /\ i_line = <<>>
  /\ i_no = 0
  /\ i_st = InlineInit
  /\ i_pc = "idle"
  /\ i_trace = <<>>

MainIdle ==
  /\ args = [number |-> None, lang |-> None, inline |-> FALSE,
             json |-> FALSE, list |-> FALSE, files |-> <<>>]
  /\ stdin_is_terminal = FALSE
  /\ pc = "idle"
  /\ inputs = <<>>
  /\ blocks = <<>>
  /\ stderr = None
  /\ exit_code = None
  /\ stdout = None
  /\ hist_collected = <<>>
  /\ hist_after_lang = <<>>
  /\ hist_lang_applied = FALSE

\* main after Args::parse()
Init ==
  /\ args \in ArgsSet
  /\ stdin_is_terminal \in BOOLEAN
  /\ pc = "collect_inputs"
  /\ inputs = <<>>
  /\ blocks = <<>>
  /\ stderr = None
  /\ exit_code = None
  /\ stdout = None
  /\ hist_collected = <<>>
  /\ hist_after_lang = <<>>
  /\ hist_lang_applied = FALSE
  /\ ParseIdle
  /\ InlineIdle

\* main: let inputs = collect_inputs(&args)?;
CollectInputs ==
  /\ pc = "collect_inputs"
  /\ \E stdin_read \in StdinReads :
       \E file_reads \in [1..Len(args.files) -> FileReads] :
         LET r == collect_inputs(args, stdin_is_terminal, stdin_read,
                                 file_reads)
         IN IF IsOk(r)
            THEN /\ inputs' = r[2]
                 /\ pc' = "collect_blocks"
                 /\ UNCHANGED <<stderr, exit_code>>
            ELSE /\ stderr' = Some(r[2])
                 /\ exit_code' = Some(1)
                 /\ pc' = "done"
                 /\ UNCHANGED inputs
  /\ UNCHANGED <<args, stdin_is_terminal, blocks, stdout, hist_collected,
                 hist_after_lang, hist_lang_applied, parseVars, inlineVars>>

\* main: if inputs.is_empty() { .. exit(1) }
\*       let mut blocks = collect_blocks(inputs, args.inline);
CollectBlocks ==
  /\ pc = "collect_blocks"
  /\ IF inputs = <<>>
     THEN /\ stderr' = Some(MsgNoInput)
          /\ exit_code' = Some(1)
          /\ pc' = "done"
          /\ UNCHANGED <<blocks, hist_collected>>
     ELSE /\ blocks' = collect_blocks(inputs, args.inline)
          /\ hist_collected' = blocks'
          /\ pc' = "lang_filter"
          /\ UNCHANGED <<stderr, exit_code>>
  /\ UNCHANGED <<args, stdin_is_terminal, inputs, stdout, hist_after_lang,
                 hist_lang_applied, parseVars, inlineVars>>

\* main: if let LangSelector::Filter(lang) = &lang_selector { blocks.retain(..) }
LangFilterStep ==
  /\ pc = "lang_filter"
  /\ IF lang_selector[1] = "Filter"
     THEN /\ blocks' = retain_lang(blocks, lang_selector[2])
          /\ hist_lang_applied' = TRUE
     ELSE UNCHANGED <<blocks, hist_lang_applied>>
  /\ hist_after_lang' = blocks'
  /\ pc' = "index_filter"
  /\ UNCHANGED <<args, stdin_is_terminal, inputs, stderr, exit_code, stdout,
                 hist_collected, parseVars, inlineVars>>

\* main: if let Some(filter) = parse_index_filter(args.number.as_deref())? {
\*           blocks = apply_index_filter(blocks, filter); }
IndexFilterStep ==
  /\ pc = "index_filter"
  /\ LET r == parse_index_filter(args.number) IN
     IF ~IsOk(r)
     THEN /\ stderr' = Some(r[2])
          /\ exit_code' = Some(1)
          /\ pc' = "done"
          /\ UNCHANGED blocks
     ELSE /\ blocks' = IF IsSome(r[2])
                       THEN apply_index_filter(blocks, Unwrap(r[2]))
                       ELSE blocks
          /\ pc' = "check_empty"
          /\ UNCHANGED <<stderr, exit_code>>
  /\ UNCHANGED <<args, stdin_is_terminal, inputs, stdout, hist_collected,
                 hist_after_lang, hist_lang_applied, parseVars, inlineVars>>

\* main: if blocks.is_empty() { .. exit(1) }
CheckEmpty ==
  /\ pc = "check_empty"
  /\ IF blocks = <<>>
     THEN /\ stderr' = Some(MsgNoMatch)
          /\ exit_code' = Some(1)
          /\ pc' = "done"
     ELSE /\ pc' = "emit"
          /\ UNCHANGED <<stderr, exit_code>>
  /\ UNCHANGED <<args, stdin_is_terminal, inputs, blocks, stdout,
                 hist_collected, hist_after_lang, hist_lang_applied,
                 parseVars, inlineVars>>

\* main: the renderer that the selector and the flags pick
Renderer ==
  IF lang_selector = LangList THEN "list_languages"
  ELSE IF args.json THEN "emit_json"
  ELSE IF args.list THEN "print_list"
  ELSE "print_raw"

\* main: list_languages / emit_json / print_list / print_raw, then Ok(())
Emit ==
  /\ pc = "emit"
  /\ stdout' = Some([renderer |-> Renderer, blocks |-> blocks])
  /\ exit_code' = Some(0)
  /\ pc' = "done"
  /\ UNCHANGED <<args, stdin_is_terminal, inputs, blocks, stderr,
                 hist_collected, hist_after_lang, hist_lang_applied,
                 parseVars, inlineVars>>

Next ==
  \/ CollectInputs
  \/ CollectBlocks
  \/ LangFilterStep
  \/ IndexFilterStep
  \/ CheckEmpty
  \/ Emit

Spec == Init /\ [][Next]_vars

-----------------------------------------------------------------------------
(* parse_blocks, one line of its loop at a time.                           *)

p_lines == lines(p_input.content)

\* the fence of an Option<FenceState>, without its buffer
FenceKey(in_fence) ==
  IF IsSome(in_fence)
  THEN Some(<<Unwrap(in_fence).fence_char, Unwrap(in_fence).fence_len,
              Unwrap(in_fence).start_line>>)
  ELSE None

\* state.buffer of an Option<FenceState>
FenceBody(in_fence) ==
  IF IsSome(in_fence) THEN Some(Unwrap(in_fence).buffer) ELSE None

\* a call parse_blocks(&input, include_inline)
InitParse ==
  /\ MainIdle
  /\ InlineIdle
  /\ p_input \in {InputSource(FilePath(1), c) : c \in ParseDocs}
  /\ p_inline \in BOOLEAN
  /\ p_idx = 0
  /\ p_st = ParseInit
  /\ p_pc = "loop"
  /\ p_result = <<>>
  /\ p_trace = <<>>

\* one iteration of: for (idx, raw_line) in input.content.lines().enumerate()
ParseStep ==
  /\ p_pc = "loop"
  /\ p_idx < Len(p_lines)
  /\ p_st' = ParseLine(p_input.name, p_inline, p_st, p_lines[p_idx + 1],
                       p_idx + 1)
  /\ p_idx' = p_idx + 1
  /\ p_trace' = Append(p_trace, [before |-> FenceKey(p_st.in_fence),
                                 after |-> FenceKey(p_st'.in_fence),
                                 nblocks |-> Len(p_st'.blocks),
                                 body |-> FenceBody(p_st.in_fence)])
  /\ UNCHANGED <<p_input, p_inline, p_pc, p_result, mainVars, inlineVars>>

\* the end of the loop: the unterminated fence, and the return
ParseReturn ==
  /\ p_pc = "loop"
  /\ p_idx = Len(p_lines)
  /\ p_result' = ParseEnd(p_input.name, p_st)
  /\ p_pc' = "returned"
  /\ UNCHANGED <<p_input, p_inline, p_idx, p_st, p_trace, mainVars, inlineVars>>

NextParse ==
  \/ ParseStep
  \/ ParseReturn

SpecParse == InitParse /\ [][NextParse]_vars

-----------------------------------------------------------------------------
(* parse_inline_blocks, one iteration of its outer loop at a time.         *)

MaxInlineLen == 7

\* a backtick, an ASCII character and a character of two bytes
InlineChars == {BT, " ", UpperEAcute}
InlineLines == SeqsUpTo(InlineChars, MaxInlineLen)
InlineLineNos == {1, 2}

\* a call parse_inline_blocks(line, line_no, source)
InitInline ==
  /\ MainIdle
  /\ ParseIdle
  /\ i_line \in InlineLines
  /\ i_no \in InlineLineNos
  /\ i_st = InlineInit
  /\ i_pc = "loop"
  /\ i_trace = <<>>

\* one iteration of: while i < bytes.len()
InlineScanStep ==
  /\ i_pc = "loop"
  /\ ~i_st.panicked
  /\ i_st.i < Len(as_bytes(i_line))
  /\ i_st' = InlineStep(i_line, i_no, p_input.name, i_st)
  /\ i_trace' = Append(i_trace, [i |-> i_st.i,
                                 start_tick |-> i_st.start_tick,
                                 start_idx |-> i_st.start_idx,
                                 nblocks |-> Len(i_st.blocks)])
  /\ UNCHANGED <<i_line, i_no, i_pc, mainVars, parseVars>>

\* the end of the loop and the return of blocks, or the panic of a slice
InlineReturn ==
  /\ i_pc = "loop"
  /\ i_st.panicked \/ i_st.i >= Len(as_bytes(i_line))
  /\ i_pc' = IF i_st.panicked THEN "panicked" ELSE "returned"
  /\ UNCHANGED <<i_line, i_no, i_st, i_trace, mainVars, parseVars>>

NextInline ==
  \/ InlineScanStep
  \/ InlineReturn

SpecInline == InitInline /\ [][NextInline]_vars

\* a call of either scanner
InitScan ==
  \/ InitParse
  \/ InitInline

NextScan ==
  \/ NextParse
  \/ NextInline

SpecScan == InitScan /\ [][NextScan]_vars

-----------------------------------------------------------------------------
(* Properties of parse_blocks, under SpecParse.                            *)

Glyphs == {BT, TL}

\* line is: whitespace, then at least n times the glyph g, then anything
LeadsWithRun(line, g, n) ==
  \E k \in 0..Len(line) :
    /\ \A i \in 1..k : IsWhitespace(line[i])
    /\ k + n <= Len(line)
    /\ \A j \in (k + 1)..(k + n) : line[j] = g

\* the number of blocks before line n was read
BlocksBefore(n) == IF n = 1 THEN 0 ELSE p_trace[n - 1].nblocks

\* the lines read so far on which a fence was opened
OpeningLines ==
  {n \in 1..Len(p_trace) : p_trace[n].before = None /\ p_trace[n].after # None}

\* C1: while a fence opened by a run of length L >= 3 of glyph G is open, a
\* line closes it (the fence ends and its block is emitted) exactly when the
\* line's leading run of G, after leading whitespace, has length >= L: so the
\* first such line terminates the block, and a line that leads with the other
\* glyph leaves the same fence open whatever the length of its run.
C1_ClosingFence ==
  \A n \in 1..Len(p_trace) :
    LET t == p_trace[n]
        line == p_lines[n]
    IN IsSome(t.before) =>
         LET g == Unwrap(t.before)[1]
             len == Unwrap(t.before)[2]
         IN /\ len >= 3
            /\ LeadsWithRun(line, g, len) =>
                 /\ t.after = None
                 /\ t.nblocks = BlocksBefore(n) + 1
            /\ ~LeadsWithRun(line, g, len) =>
                 /\ t.after = t.before
                 /\ t.nblocks = BlocksBefore(n)
            /\ \A h \in Glyphs \ {g} :
                 LeadsWithRun(line, h, 1) => t.after = t.before

\* a fence of length 4 stayed open over a line leading with a run of length
\* 4 of the other glyph, and was closed by the next line
C1_Witness ==
  \E n \in 2..(Len(p_trace) - 1) :
    /\ IsSome(p_trace[n].before)
    /\ Unwrap(p_trace[n].before)[2] = 4
    /\ \E h \in Glyphs \ {Unwrap(p_trace[n].before)[1]} :
         LeadsWithRun(p_lines[n], h, 4)
    /\ p_trace[n].after = p_trace[n].before
    /\ p_trace[n + 1].after = None
    /\ LeadsWithRun(p_lines[n + 1], Unwrap(p_trace[n].before)[1], 4)

\* the number of the last line of a text: one per line terminator, and one
\* more for text after the last terminator
LastLineNumber(content) ==
  Cardinality({i \in 1..Len(content) : content[i] = NL})
    + (IF content # <<>> /\ content[Len(content)] # NL THEN 1 ELSE 0)

\* the document's only fence is still open at the end of the text
OnlyFenceLeftOpen ==
  /\ p_pc = "returned"
  /\ Cardinality(OpeningLines) = 1
  /\ p_trace[Len(p_trace)].after # None

\* C2, as claimed: a document whose only fence is open at the end of the
\* text gives exactly one Block, Fenced, with end_line the last line's number.
C2_ExactlyOneBlock ==
  OnlyFenceLeftOpen =>
    /\ Len(p_result) = 1
    /\ p_result[1].kind = Fenced
    /\ p_result[1].end_line = Some(LastLineNumber(p_input.content))

\* C2, amended: such a document gives exactly one Fenced block, the last of
\* the returned sequence, with end_line the number of the document's last
\* line; it is the only block when inline extraction is disabled, and with
\* inline extraction enabled every other block is an Inline block of a line
\* before the opening fence line.
C2_OneFencedBlock ==
  OnlyFenceLeftOpen =>
    LET opener == CHOOSE n \in OpeningLines : TRUE
        last == Len(p_result)
    IN /\ last >= 1
       /\ p_result[last].kind = Fenced
       /\ p_result[last].end_line = Some(LastLineNumber(p_input.content))
       /\ p_result[last].start_line = Some(opener + 1)
       /\ \A p \in 1..(last - 1) :
            /\ p_result[p].kind = Inline
            /\ Unwrap(p_result[p].start_line) < opener
       /\ ~p_inline => last = 1

\* the fence was opened on the second of three lines, after a line with an
\* inline span, and inline extraction is enabled
C2_Witness ==
  /\ OnlyFenceLeftOpen
  /\ p_inline
  /\ OpeningLines = {2}
  /\ Len(p_lines) = 3
  /\ Len(p_result) = 2

\* what the blocks are, during the loop and after the return
BlocksSoFar == IF p_pc = "returned" THEN p_result ELSE p_st.blocks

\* C7: every Inline block comes from a line that was read while no fence was
\* open and that did not open one: never from a fence-opening line, a line of
\* a fence body or a fence-closing line.
C7_InlineOutsideFence ==
  \A p \in 1..Len(BlocksSoFar) :
    BlocksSoFar[p].kind = Inline =>
      LET n == Unwrap(BlocksSoFar[p].start_line) IN
      /\ p_inline
      /\ n \in 1..Len(p_trace)
      /\ p_trace[n].before = None
      /\ p_trace[n].after = None

\* a line's text holds a complete backtick span
HasSpan(line) ==
  \E a, b \in 1..Len(line) :
    /\ a + 1 < b
    /\ line[a] = BT /\ line[b] = BT
    /\ \A i \in (a + 1)..(b - 1) : line[i] # BT

\* with inline extraction enabled, a line with a span was read outside any
\* fence, then a line with a span opened a fence, then a line with a span was
\* read inside it
C7_Witness ==
  /\ p_inline
  /\ Len(p_trace) = 3
  /\ \A n \in 1..3 : HasSpan(p_lines[n])
  /\ p_trace[1].after = None
  /\ p_trace[2].after # None
  /\ p_trace[3].before # None
  /\ Len(BlocksSoFar) >= 1

\* C8: with inline extraction disabled no block is Inline, and a line read
\* outside every fence that opens none, such as one with backtick spans,
\* adds no block.
C8_NoInlineWhenDisabled ==
  ~p_inline =>
    /\ \A p \in 1..Len(BlocksSoFar) : BlocksSoFar[p].kind = Fenced
    /\ \A n \in 1..Len(p_trace) :
         (p_trace[n].before = None /\ p_trace[n].after = None) =>
           p_trace[n].nblocks = BlocksBefore(n)

\* with inline extraction disabled, a line with a span was read outside any
\* fence and the call returned
C8_Witness ==
  /\ ~p_inline
  /\ p_pc = "returned"
  /\ \E n \in 1..Len(p_trace) :
       /\ HasSpan(p_lines[n])
       /\ p_trace[n].before = None
       /\ p_trace[n].after = None

-----------------------------------------------------------------------------
(* Properties of main, under Spec.                                         *)

\* collect_blocks has returned
Collected == pc \notin {"collect_inputs", "collect_blocks"} /\ inputs # <<>>

\* the language filter statement is behind
PastLangFilter == Collected /\ pc # "lang_filter"

\* the index filter statement is behind, with no error
PastIndexFilter ==
  \/ pc \in {"check_empty", "emit"}
  \/ pc = "done" /\ (stdout # None \/ stderr = Some(MsgNoMatch))

\* the blocks of each document, parsed alone
DocBlocks == [i \in 1..Len(inputs) |-> parse_blocks(inputs[i], args.inline)]

\* the number of blocks of the documents before document i, given the
\* documents' blocks
RECURSIVE BlocksBeforeDoc(_, _)
BlocksBeforeDoc(docs, i) ==
  IF i = 1 THEN 0 ELSE BlocksBeforeDoc(docs, i - 1) + Len(docs[i - 1])

\* C3: when collect_blocks returns, the block at position j of document i
\* has the index k_0 + .. + k_(i-1) + j, so that the indices of the returned
\* sequence are 0 .. sum(k_i) - 1 in order and each equals the block's
\* position.
C3_GlobalIndices ==
  (Collected /\ pc = "lang_filter") =>
    \A docs \in {DocBlocks} :
      /\ blocks = hist_collected
      /\ Len(blocks) = BlocksBeforeDoc(docs, Len(inputs) + 1)
      /\ \A i \in 1..Len(inputs) :
           \A j \in 0..(Len(docs[i]) - 1) :
             blocks[BlocksBeforeDoc(docs, i) + j + 1]
               = [docs[i][j + 1] EXCEPT !.index = BlocksBeforeDoc(docs, i) + j]
      /\ \A p \in 1..Len(blocks) : blocks[p].index = p - 1

\* two documents with two blocks each were collected
C3_Witness ==
  /\ Collected
  /\ pc = "lang_filter"
  /\ Len(inputs) = 2
  /\ Len(DocBlocks[1]) = 2
  /\ Len(DocBlocks[2]) = 2
  /\ blocks[4].index = 3

\* bs holds blocks of the collected sequence, unchanged and in its order
SubsequenceOfCollected(bs) ==
  /\ \A p \in 1..Len(bs) :
       /\ bs[p].index + 1 \in 1..Len(hist_collected)
       /\ bs[p] = hist_collected[bs[p].index + 1]
  /\ \A p, q \in 1..Len(bs) : p < q => bs[p].index < bs[q].index

Elements(bs) == {bs[p] : p \in 1..Len(bs)}

\* C4: the index filter selects by the indices fixed by collect_blocks:
\* Single(n) leaves at most one block, the survivor of the language filter
\* whose index is n; Range leaves exactly the survivors with
\* start <= index <= end; no filter changes a block, and the result is a
\* subsequence of the collected sequence.
C4_FilterByOriginalIndex ==
  PastIndexFilter =>
    LET f == parse_index_filter(args.number)[2]
        survived == Elements(hist_after_lang)
    IN /\ SubsequenceOfCollected(hist_after_lang)
       /\ SubsequenceOfCollected(blocks)
       /\ IsSome(stdout) => Unwrap(stdout).blocks = blocks
       /\ IF f = None THEN blocks = hist_after_lang
          ELSE IF Unwrap(f).tag = "Single"
          THEN /\ Len(blocks) <= 1
               /\ Elements(blocks) = {b \in survived : b.index = Unwrap(f).n}
          ELSE Elements(blocks) =
                 {b \in survived : /\ Unwrap(f).start <= b.index
                                    /\ b.index <= Unwrap(f).end}

\* the language filter removed the block with index 1, and Single(2) then
\* selected the block with index 2, the second of the survivors
C4_Witness ==
  /\ PastIndexFilter
  /\ hist_lang_applied
  /\ Len(hist_collected) >= 3
  /\ Len(hist_after_lang) = 2
  /\ hist_after_lang[2].index = 2
  /\ parse_index_filter(args.number) = Ok(Some(Single(2)))
  /\ Len(blocks) = 1
  /\ blocks[1].index = 2
  /\ IsSome(stdout)

\* text that is an unsigned integer: decimal digits, at least one, after an
\* optional "+", with optional whitespace around
IsUnsignedText(s) ==
  \E i, j \in 1..Len(s) :
    /\ i <= j
    /\ \A k \in 1..(i - 1) : IsWhitespace(s[k])
    /\ \A k \in (j + 1)..Len(s) : IsWhitespace(s[k])
    /\ \A k \in i..j : IsDigit(s[k]) \/ (k = i /\ i < j /\ s[k] = "+")

RECURSIVE Pow10(_)
Pow10(n) == IF n = 0 THEN 1 ELSE 10 * Pow10(n - 1)

RECURSIVE SumOver(_, _)
SumOver(S, f) ==
  IF S = {} THEN 0
  ELSE LET x == CHOOSE x \in S : TRUE IN f[x] + SumOver(S \ {x}, f)

\* the number that the digits of s write
TextValue(s) ==
  LET ds == {k \in 1..Len(s) : IsDigit(s[k])}
      term == [k \in ds |->
                 DigitVal(s[k]) * Pow10(Cardinality({m \in ds : m > k}))]
  IN SumOver(ds, term)

\* an index (one unsigned integer) or a range (two, the first not above the
\* second, with "-" between)
WellFormedIndex(s) ==
  \/ IsUnsignedText(s)
  \/ \E d \in 1..Len(s) :
       /\ s[d] = "-"
       /\ IsUnsignedText(SubSeq(s, 1, d - 1))
       /\ IsUnsignedText(SubSeq(s, d + 1, Len(s)))
       /\ TextValue(SubSeq(s, 1, d - 1)) <= TextValue(SubSeq(s, d + 1, Len(s)))

Malformed(raw) == IsSome(raw) /\ ~WellFormedIndex(Unwrap(raw))

\* C5: for a malformed index/range expression parse_index_filter returns an
\* error, no renderer is ever called, and a run whose inputs were read ends
\* with exit code 1 and that error as its message.
C5_MalformedIndexFails ==
  Malformed(args.number) =>
    /\ ~IsOk(parse_index_filter(args.number))
    /\ stdout = None
    /\ pc # "emit"
    /\ pc = "done" =>
         /\ exit_code = Some(1)
         /\ stderr = IF inputs = <<>> THEN Some(MsgIo)
                     ELSE Some(parse_index_filter(args.number)[2])

\* a run with the range 4-2 over documents with blocks has ended
C5_Witness ==
  /\ pc = "done"
  /\ args.number = Some(<<"4", "-", "2">>)
  /\ Len(hist_collected) >= 3
  /\ stderr = Some("range start must be <= end")
  /\ exit_code = Some(1)

\* letters that differ in case only
CasePairs ==
  {<<AsciiUpper[k], AsciiLower[k]>> : k \in 1..Len(AsciiUpper)}
    \cup {<<UpperEAcute, LowerEAcute>>}
SameLetter(c, d) == c = d \/ <<c, d>> \in CasePairs \/ <<d, c>> \in CasePairs
EqualIgnoringCase(a, b) ==
  Len(a) = Len(b) /\ \A k \in 1..Len(a) : SameLetter(a[k], b[k])

\* C6: with a language filter for the tag the user gave, a collected block
\* is retained exactly when its lang is present and equals the tag when
\* letter case is ignored; a block with no lang is never retained.
C6_LangFilterIgnoresCase ==
  (PastLangFilter /\ IsSome(args.lang) /\ IsSome(Unwrap(args.lang))) =>
    LET tag == Unwrap(Unwrap(args.lang)) IN
    \A p \in 1..Len(hist_collected) :
      LET b == hist_collected[p] IN
      (b \in Elements(hist_after_lang))
        <=> (IsSome(b.lang) /\ EqualIgnoringCase(Unwrap(b.lang), tag))

\* no file was named and the standard input held nothing
NoInputAtAll ==
  /\ args.files = <<>>
  /\ \A i \in 1..Len(inputs) : inputs[i].content = <<>>

\* C9: of the two empty outcomes, "no input" is the one reported when no
\* input exists at all.
C9_NoInputReported ==
  (pc = "done" /\ NoInputAtAll /\ stderr \in {Some(MsgNoInput), Some(MsgNoMatch)})
    => stderr = Some(MsgNoInput)

\* the messages of the errors of parse_index_filter
IndexErrors ==
  {"range start must be <= end", "invalid digit found in string",
   "cannot parse integer from empty string"}

\* C10: when the run ends with the error of an invalid index/range
\* expression, the language filter has not been applied to the blocks.
C10_ErrorBeforeAnyFilter ==
  (pc = "done" /\ IsSome(stderr) /\ Unwrap(stderr) \in IndexErrors)
    => ~hist_lang_applied

-----------------------------------------------------------------------------
(* Properties of the fence bodies of parse_blocks, under SpecParse.        *)

\* the lines ls[from..to], each followed by one line terminator
RECURSIVE BodyText(_, _, _)
BodyText(ls, from, to) ==
  IF from > to THEN <<>>
  ELSE (BodyText(ls, from, to - 1) \o ls[to]) \o <<NL>>

\* the body of the open fence after line n was read, if a fence is open
BodyAfter(n) ==
  IF n < Len(p_trace) THEN p_trace[n + 1].body ELSE FenceBody(p_st.in_fence)

\* the lines read so far on which a fence was closed
ClosingLines ==
  {n \in 1..Len(p_trace) : p_trace[n].before # None /\ p_trace[n].after = None}

\* C11: while a fence is open, every line that is not a closing line (a line
\* with a shorter run of the opening glyph, a run of the other glyph, or a
\* line that would itself open a fence) is appended verbatim, followed by
\* one line terminator, to the body, in document order, and leaves the same
\* fence open; the opening line and the closing line add nothing to the body.
C11_BodyVerbatim ==
  \A n \in 1..Len(p_trace) :
    LET t == p_trace[n]
        line == p_lines[n]
    IN /\ (t.before = None /\ t.after # None) => BodyAfter(n) = Some(<<>>)
       /\ IsSome(t.before) =>
            LET g == Unwrap(t.before)[1]
                len == Unwrap(t.before)[2]
                first == Unwrap(t.before)[3]
            IN /\ first - 1 \in OpeningLines
               /\ t.body = Some(BodyText(p_lines, first, n - 1))
               /\ ~LeadsWithRun(line, g, len) =>
                    /\ t.after = t.before
                    /\ BodyAfter(n) = Some((Unwrap(t.body) \o line) \o <<NL>>)
               /\ LeadsWithRun(line, g, len) =>
                    /\ BodyAfter(n) = None
                    /\ LET code == BlocksSoFar[t.nblocks].code
                       IN code = SubSeq(Unwrap(t.body), 1, Len(code))

\* a fence of four backticks is open after three lines; its body is the
\* second line, which leads with a space and a run of three backticks and a
\* tag, and the third, a run of three tildes
C11_Witness ==
  /\ p_idx = 3
  /\ p_lines[1] = <<BT, BT, BT, BT>>
  /\ FenceBody(p_st.in_fence) =
       Some(<<" ", BT, BT, BT, "r", NL, TL, TL, TL, NL>>)

\* a body with one trailing line terminator removed, if it has one
RemoveOneTerminator(body) ==
  IF body # <<>> /\ body[Len(body)] = NL
  THEN SubSeq(body, 1, Len(body) - 1)
  ELSE body

\* the fence left open at the end of the text gave the last returned block
FenceEndedByEof == p_pc = "returned" /\ IsSome(p_st.in_fence)

\* C12, as claimed: the code of every Fenced block, closed or ended by the
\* end of the document, is its accumulated body with exactly one trailing
\* line terminator removed, so that blank lines at the end of the body are
\* kept.
C12_OneTerminatorRemoved ==
  /\ \A n \in ClosingLines :
       BlocksSoFar[p_trace[n].nblocks].code =
         RemoveOneTerminator(Unwrap(p_trace[n].body))
  /\ FenceEndedByEof =>
       p_result[Len(p_result)].code =
         RemoveOneTerminator(Unwrap(FenceBody(p_st.in_fence)))

\* the opening line of the fence that is open when line n is read
OpenerBefore(n) ==
  CHOOSE m \in OpeningLines :
    m < n /\ \A k \in OpeningLines : k < n => k <= m

\* the positions of the Fenced blocks
FencedPositions ==
  {p \in 1..Len(BlocksSoFar) : BlocksSoFar[p].kind = Fenced}

\* C13: every Fenced block has start_line the number of its opening fence
\* line plus one, and end_line the number of its closing fence line minus
\* one, or the number of the document's last line when the fence is never
\* closed.
C13_FencedLineNumbers ==
  /\ \A n \in ClosingLines :
       LET b == BlocksSoFar[p_trace[n].nblocks]
       IN /\ b.kind = Fenced
          /\ b.start_line = Some(OpenerBefore(n) + 1)
          /\ b.end_line = Some(n - 1)
  /\ FenceEndedByEof =>
       LET b == p_result[Len(p_result)]
       IN /\ b.kind = Fenced
          /\ b.start_line = Some(OpenerBefore(Len(p_lines) + 1) + 1)
          /\ b.end_line = Some(LastLineNumber(p_input.content))
  /\ Cardinality(FencedPositions) =
       Cardinality(ClosingLines) + (IF FenceEndedByEof THEN 1 ELSE 0)

\* a fence opened on line 1 was closed on line 2, and a fence opened on
\* line 3 was ended by the end of the document
C13_Witness ==
  /\ FenceEndedByEof
  /\ OpeningLines = {1, 3}
  /\ ClosingLines = {2}
  /\ Len(p_result) = 2
  /\ p_result[1].end_line = Some(1)
  /\ p_result[2].start_line = Some(4)

-----------------------------------------------------------------------------
(* Properties of parse_inline_blocks, under SpecInline.                    *)

\* the maximal backtick runs of a line, as <<first position, length>>
TickRuns(line) ==
  {<<p, k>> \in (1..Len(line)) \X (1..Len(line)) :
     /\ p + k - 1 <= Len(line)
     /\ \A j \in p..(p + k - 1) : line[j] = BT
     /\ p > 1 => line[p - 1] # BT
     /\ p + k <= Len(line) => line[p + k] # BT}

\* the runs from position from on, read left to right with the span open:
\* the texts between an opening run and the next run of the same length
RECURSIVE SpansFrom(_, _, _)
SpansFrom(line, from, open) ==
  LET rest == {r \in TickRuns(line) : r[1] >= from} IN
  IF rest = {} THEN <<>>
  ELSE LET r == CHOOSE x \in rest : \A y \in rest : x[1] <= y[1]
           next == r[1] + r[2]
       IN IF open = None THEN SpansFrom(line, next, Some(r))
          ELSE IF r[2] = Unwrap(open)[2]
          THEN <<SubSeq(line, Unwrap(open)[1] + Unwrap(open)[2], r[1] - 1)>>
                 \o SpansFrom(line, next, None)
          ELSE SpansFrom(line, next, open)

\* C14: parse_inline_blocks reads the maximal backtick runs of a line from
\* left to right: with no span open a run of length k opens one; with a span
\* open only a run of length exactly k closes it, the emitted code being the
\* text strictly between the two runs, and a run of another length is
\* content, closing and opening nothing; the spans come in left-to-right
\* order, each with start_line = end_line = the line's number and no lang.
C14_InlineSpans ==
  i_pc = "returned" =>
    \A spans \in {SpansFrom(i_line, 1, None)} :
      /\ Len(i_st.blocks) = Len(spans)
      /\ \A p \in 1..Len(spans) :
           i_st.blocks[p] =
             CodeBlock(0, p_input.name, Inline, None, Some(i_no), Some(i_no),
                       spans[p])

\* a span opened by one backtick holds a run of two backticks and is closed
\* by the next single backtick
C14_Witness ==
  /\ i_pc = "returned"
  /\ i_line = <<BT, " ", BT, BT, UpperEAcute, BT>>
  /\ Len(i_st.blocks) = 1
  /\ i_st.blocks[1].code = <<" ", BT, BT, UpperEAcute>>

\* C15: no Inline block with empty code is ever emitted: every block of
\* parse_inline_blocks is Inline with code of length at least 1.
C15_InlineCodeNotEmpty ==
  \A p \in 1..Len(i_st.blocks) :
    /\ i_st.blocks[p].kind = Inline
    /\ Len(i_st.blocks[p].code) >= 1

\* a span of one character between two single backticks was emitted
C15_Witness ==
  /\ i_line = <<BT, " ", BT>>
  /\ Len(i_st.blocks) = 1
  /\ i_st.blocks[1].code = <<" ">>

-----------------------------------------------------------------------------
(* Properties of the inline spans of parse_blocks, under SpecParse.        *)

\* the lines read so far outside every fence that opened none
OutsideLines ==
  {n \in 1..Len(p_trace) : p_trace[n].before = None /\ p_trace[n].after = None}

\* C16: a span left open at the end of a line gives no block and is not
\* continued on the next line: the Inline blocks of a line outside every
\* fence are the spans of that line read on its own, with the line's number,
\* whatever the lines before it.
C16_InlinePerLine ==
  p_inline =>
    \A n \in OutsideLines :
      \A spans \in {SpansFrom(p_lines[n], 1, None)} :
        /\ p_trace[n].nblocks = BlocksBefore(n) + Len(spans)
        /\ \A p \in 1..Len(spans) :
             BlocksSoFar[BlocksBefore(n) + p] =
               CodeBlock(0, p_input.name, Inline, None, Some(n), Some(n),
                         spans[p])

\* two lines that each hold only a run of two backticks gave no block, and
\* the third line gave the block of its span
C16_Witness ==
  /\ p_inline
  /\ p_pc = "returned"
  /\ p_lines = <<<<BT, BT>>, <<BT, BT>>, <<"a", " ", BT, "x", BT>>>>
  /\ Len(p_result) = 1
  /\ p_result[1].start_line = Some(3)
  /\ p_result[1].code = <<"x">>

-----------------------------------------------------------------------------
(* Properties of collect_blocks over several documents, under Spec.        *)

\* C17: fence state never crosses a document boundary: the blocks that
\* document i gives to collect_blocks are, in every field but index, the
\* blocks of document i parsed alone, also when an earlier document ends
\* inside a fence that was never closed.
C17_FencePerDocument ==
  (Collected /\ pc = "lang_filter") =>
    \A docs \in {DocBlocks} :
      /\ Len(hist_collected) = BlocksBeforeDoc(docs, Len(inputs) + 1)
      /\ \A i \in 1..Len(inputs) :
           LET before == BlocksBeforeDoc(docs, i)
               given == [p \in 1..Len(docs[i]) |->
                           [hist_collected[before + p] EXCEPT !.index = 0]]
           IN /\ given = docs[i]
              /\ \A p \in 1..Len(given) : given[p].source = inputs[i].name

\* the first file ends inside a fence that was never closed, and the second
\* file starts with a line that would close it and gave its own two blocks
C17_Witness ==
  /\ Collected
  /\ pc = "lang_filter"
  /\ args.inline
  /\ Len(inputs) = 2
  /\ inputs[1].content = DocUnterminated
  /\ inputs[2].content = DocFencedInline
  /\ Len(hist_collected) = 3
  /\ hist_collected[1].end_line = Some(2)
  /\ hist_collected[2].lang = Some(<<"r">>)
  /\ hist_collected[3].kind = Inline

-----------------------------------------------------------------------------
(* Totality of the two scanners, under SpecScan.                           *)

\* the scan position after iteration n of parse_inline_blocks
PositionAfter(n) ==
  IF n < Len(i_trace) THEN i_trace[n + 1].i ELSE i_st.i

\* the length of the run of the open span after iteration n, if one is open
TickAfter(n) ==
  IF n < Len(i_trace) THEN i_trace[n + 1].start_tick ELSE i_st.start_tick

\* C18: the scanners are total. In parse_inline_blocks the scan position
\* strictly increases at every iteration and stops at the line's length, and
\* every substring taken is in bounds (content start <= start of the
\* closing run <= line length, both on character boundaries), so the scan
\* never panics and returns; parse_blocks reads every line once and returns
\* a block list, with no error, also with a fence or a span left open.
\* (Stated of the last iteration done: every iteration is the last one in
\* the state that follows it.)
C18_ScannersTotal ==
  \A len \in {Len(as_bytes(i_line))} :
    /\ i_pc # "panicked" /\ ~i_st.panicked
    /\ i_st.i <= len
    /\ \A n \in {Len(i_trace)} \ {0} :
         /\ i_trace[n].i < PositionAfter(n)
         /\ PositionAfter(n) <= len
         /\ IsSome(i_trace[n].start_idx) =>
              Unwrap(i_trace[n].start_idx) <= i_trace[n].i
         /\ (IsSome(i_trace[n].start_tick) /\ TickAfter(n) = None) =>
              /\ is_char_boundary(i_line, Unwrap(i_trace[n].start_idx))
              /\ is_char_boundary(i_line, i_trace[n].i)
    /\ i_pc = "loop" => ENABLED NextInline
    /\ i_pc = "returned" => i_st.i = len
    /\ p_pc = "loop" =>
         /\ Len(p_trace) = p_idx
         /\ p_idx < Len(p_lines) \/ p_idx = Len(p_lines)
    /\ p_pc = "returned" =>
         /\ p_idx = Len(p_lines)
         /\ \A p \in 1..Len(p_result) : p_result[p].kind \in {Fenced, Inline}

\* the scan of a line of eight bytes returned with a span still open, after
\* two runs of two backticks that did not close the span of one backtick
C18_Witness ==
  /\ i_pc = "returned"
  /\ i_line = <<BT, UpperEAcute, BT, BT, UpperEAcute, BT, BT>>
  /\ i_st.i = 9
  /\ i_st.start_tick = Some(1)
  /\ i_st.blocks = <<>>
  /\ Len(i_trace) = 7

-----------------------------------------------------------------------------
(* Order and extent of the blocks of parse_blocks, under SpecParse.        *)

\* the lines of the fence of the Fenced block at position p: from its
\* opening line to its closing line, or to the last line when the end of
\* the document ended it
FenceInterval(p) ==
  LET b == BlocksSoFar[p]
      opening == Unwrap(b.start_line) - 1
  IN IF FenceEndedByEof /\ p = Len(p_result)
     THEN opening..Len(p_lines)
     ELSE opening..(Unwrap(b.end_line) + 1)

\* C19: within one document the blocks of parse_blocks are in order of
\* non-decreasing start_line, and the fences of distinct Fenced blocks, each
\* taken from its opening line to its closing line or to the last line of
\* the document, have no line in common.
C19_OrderedDisjoint ==
  /\ \A p \in 1..(Len(BlocksSoFar) - 1) :
       Unwrap(BlocksSoFar[p].start_line)
         <= Unwrap(BlocksSoFar[p + 1].start_line)
  /\ \A p, q \in FencedPositions :
       p # q => FenceInterval(p) \cap FenceInterval(q) = {}
  /\ \A p \in FencedPositions :
       /\ FenceInterval(p) # {}
       /\ \A n \in FenceInterval(p) : n \in 1..Len(p_lines)

\* a closed fence on lines 1 and 2 is followed by a fence opened on line 3
\* and ended by the end of the document
C19_Witness ==
  /\ p_pc = "returned"
  /\ Len(p_result) = 2
  /\ FencedPositions = {1, 2}
  /\ FenceInterval(1) = 1..2
  /\ FenceInterval(2) = 3..3

\* the number of line terminators of a body: one per line appended
Terminators(body) == Cardinality({i \in 1..Len(body) : body[i] = NL})

\* end_line - start_line + 1 of block b is the number of lines of body
CountsBody(b, body) ==
  LET first == Unwrap(b.start_line)
      last == Unwrap(b.end_line)
  IN /\ last - first + 1 = Terminators(body)
     /\ last >= first - 1
     /\ last = first - 1 <=> body = <<>>

\* C20: for every Fenced block, end_line - start_line + 1 is the number of
\* lines appended to its body; hence end_line >= start_line - 1, with
\* equality exactly when the body is empty (the opening line directly
\* followed by its closing line, or the opening line on the last line of the
\* document).
C20_LineCount ==
  /\ \A n \in ClosingLines :
       CountsBody(BlocksSoFar[p_trace[n].nblocks], Unwrap(p_trace[n].body))
  /\ FenceEndedByEof =>
       CountsBody(p_result[Len(p_result)], Unwrap(FenceBody(p_st.in_fence)))

\* a fence opened on line 1 and ended by the end of the document has a body
\* of two lines, the second of them blank, and start_line 2, end_line 3
C20_Witness ==
  /\ FenceEndedByEof
  /\ OpeningLines = {1}
  /\ FenceBody(p_st.in_fence) = Some(<<BT, BT, NL, NL>>)
  /\ p_result[Len(p_result)].start_line = Some(2)
  /\ p_result[Len(p_result)].end_line = Some(3)

=============================================================================
